---- MODULE Spec2Model ----
(***************************************************************************)
(* Project board: the observable store (ProjectState) with its listener    *)
(* registry, the two column views (ProjectList) and the drag-and-drop      *)
(* handlers of ProjectItem and ProjectList, modelled from src/src/app.ts.  *)
(*                                                                         *)
(* JavaScript arrays and Project objects are reference values, so the      *)
(* model keeps a heap: `objs` holds the Project objects (a reference is an *)
(* index into it) and `heap` maps an array reference to the sequence of    *)
(* Project references the array holds.  The store's private `projects`     *)
(* array is the array at reference ProjectsRef.                            *)
(***************************************************************************)
EXTENDS Integers, Sequences, FiniteSets, TLC

\* ------------------------------------------------------------------ bounds
MaxProjects == 2
MaxListeners == 2
\* new ProjectState() runs at most this often
MaxInstances == 2
\* a broadcast is followed while the registry is no longer than this
MaxRegistered == 3

\* ------------------------------------------------------------- data types
\* minLength of the description, min and max of the manday in gatherUserInput
MinDescription == 5
MinManday == 1
MaxManday == 1000

\* the base of the decimal notation of numbers
Radix == 10

\* enum ProjectStatus { Active, Finished }
Active == 0
Finished == 1
ProjectStatus == {Active, Finished}

\* the two ProjectList instances created at the end of the script
ColumnTypes == {"active", "finished"}

\* values Math.random().toString() may return: nothing makes two calls differ
RandomIds == {"0.1", "0.2"}

\* argument triples (title, description, manday) addProject is called with;
\* addProject itself checks none of them
ProjectArgs == { <<"A", "desc1", 5>>, <<"", "", 0>> }

\* ids moveProject is called with: those of records, and ids of no record
MoveIds == RandomIds \cup {""}

\* new Project(id, title, description, manday, status)
Project(id, title, description, manday, status) ==
    [id |-> id, title |-> title, description |-> description,
     manday |-> manday, status |-> status]

\* reference of the array held in ProjectState.projects
ProjectsRef == 0

\* the reference of a listener that keeps no array
NoArray == -1

\* no drag gesture in progress
\* the form as clearInputs leaves it
NoInput == [title |-> "", description |-> "", manday |-> ""]

\* no broadcast in progress; else next is the index the iterator reads next
\* and start the length of the registry when the loop began
NoLoop == [next |-> 0, start |-> 0]

NoDrag ==
    [active |-> FALSE, types |-> <<>>, data |-> "", src |-> 0, dropped |-> FALSE,
     over |-> "none"]

VARIABLES
    objs,             \* heap of Project objects: objs[r] is the object at reference r
    heap,             \* heap of arrays: heap[a] is the sequence of Project references
    listeners,        \* State.listeners, in registration order
    held,             \* held[i]: reference of the array listener i keeps (NoArray: none)
    assignedProjects, \* ProjectList.assignedProjects of each column (Project references)
    droppable,        \* whether each column's <ul> carries the class 'droppable'
    drag,             \* the DataTransfer of the gesture in progress
    lastEvent,        \* the handler that ran last
    addCalls,         \* the addProject calls made by the handler that ran last
    moveCalls,        \* the moveProject calls made by the handler that ran last
    broadcasts,       \* how many times updateListeners ran in the handler that ran last
    calls,            \* listener invocations made by the handler that ran last
    instance,         \* ProjectState.instance: 0 while undefined, else the store object
    created,          \* how many times new ProjectState() has run
    form,             \* the values of the #title, #description and #manday inputs
    loop              \* the iterator of the for...of of a broadcast in progress

vars == <<objs, heap, listeners, held, assignedProjects, droppable, drag,
          lastEvent, addCalls, moveCalls, broadcasts, calls,
          instance, created, form, loop>>

\* ---------------------------------------------------------------- helpers
\* the records an array of Project references denotes
Items(os, arr) == [k \in 1..Len(arr) |-> os[arr[k]]]

\* the store's sequence, field for field
StoreItems == Items(objs, heap[ProjectsRef])

\* a filter callback that keeps the active projects whatever the column
relevantActiveOnly(type, status) == status = Active

\* the callback ProjectList passes to filter: does the column of this type show
\* a project of this status
relevant(type, status) ==
    IF type = "active" THEN status = Active ELSE status = Finished

\* Array.prototype.find with prj => prj.id === projectId: the index of the first
\* match in the array, 0 for undefined
RECURSIVE findFrom(_, _, _, _)
findFrom(os, arr, projectId, k) ==
    IF k > Len(arr) THEN 0
    ELSE IF os[arr[k]].id = projectId THEN k
    ELSE findFrom(os, arr, projectId, k + 1)

\* a find that falls back on the first element when nothing matches
findOrFirst(os, arr, projectId) ==
    LET k == findFrom(os, arr, projectId, 1)
    IN IF k = 0 /\ Len(arr) > 0 THEN 1 ELSE k

find(os, arr, projectId) == findFrom(os, arr, projectId, 1)

\* a reference no live array has
FreshRef(h) == CHOOSE n \in 1..(Cardinality(DOMAIN h) + 1) : n \notin DOMAIN h

\* (the array itself handed out, no copy made)
sliceShared(h, ref) == [heap |-> h, ref |-> ref]
\* Array.prototype.slice(): a new array with the same elements
slice(h, ref) ==
    LET n == FreshRef(h)
    IN [heap |-> [a \in DOMAIN h \cup {n} |-> IF a = n THEN h[ref] ELSE h[a]],
        ref |-> n]

\* (the two branches of the conditional exchanged)
StatusOfSwapped(type) == IF type = "active" THEN Finished ELSE Active
\* this.type === 'active' ? ProjectStatus.Active : ProjectStatus.Finished
StatusOf(type) == IF type = "active" THEN Active ELSE Finished

\* ------------------------------------------------------------ the store
\* the store and view state a handler works on, with the handler's own log
Begin ==
    [objs |-> objs, heap |-> heap, listeners |-> listeners, held |-> held,
     assigned |-> assignedProjects, calls |-> <<>>, broadcasts |-> 0,
     addCalls |-> <<>>, moveCalls |-> <<>>]

\* the listener ProjectList.configure registers: filter the snapshot by the
\* column's status, keep the result and render it; the snapshot is not kept
columnListener(st, type, items) ==
    [st EXCEPT !.assigned[type] =
        SelectSeq(st.heap[items], LAMBDA r : relevant(type, st.objs[r].status))]

\* the listener function ProjectList.configure registers for a column
ColumnFn(type) == [type |-> type, fn |-> 0]

\* the fn-th listener function written by a user of the store
ObserverFn(fn) == [type |-> "observer", fn |-> fn]

\* the first index at which the function registered at index i is registered
FirstIndex(registry, i) ==
    CHOOSE k \in 1..i :
        /\ registry[k] = registry[i]
        /\ \A j \in 1..(k - 1) : registry[j] # registry[i]

\* a listener registered through addListener that keeps the array it is given
\* (one kept array per function, however often the function is registered)
observerListener(st, i, items) ==
    [st EXCEPT !.held[FirstIndex(st.listeners, i)] = items]

\* an addListener that skips a function that is already registered
addListenerOnce(st, fn) ==
    IF \E k \in 1..Len(st.listeners) : st.listeners[k] = fn
    THEN st
    ELSE [st EXCEPT !.listeners = Append(@, fn),
                    !.held = Append(@, NoArray)]

\* addListener(listenerFn) { this.listeners.push(listenerFn) }
addListener(st, fn) ==
    [st EXCEPT !.listeners = Append(@, fn),
               !.held = Append(@, NoArray)]

\* the observer functions in the registry
Observers(registry) ==
    {registry[k].fn : k \in {j \in 1..Len(registry) : registry[j].type = "observer"}}

\* listeners that call projectState.addListener whenever they are invoked:
\* a "registrar" registers a new function that keeps what it is given, a
\* "selfRegistrar" registers itself
RegistrarTypes == {"registrar", "selfRegistrar"}
RegistrarFn(type) == [type |-> type, fn |-> 1]

registeringListener(st, i) ==
    IF st.listeners[i].type = "selfRegistrar"
    THEN addListener(st, st.listeners[i])
    ELSE addListener(st, ObserverFn(Cardinality(Observers(st.listeners)) + 1))

\* listenerFn(items) for the listener at index i of the registry
listenerFn(st, i, items) ==
    LET logged == [st EXCEPT !.calls =
                      Append(@, [listener |-> i, items |-> Items(st.objs, st.heap[items])])]
    IN IF st.listeners[i].type \in ColumnTypes
       THEN columnListener(logged, st.listeners[i].type, items)
       ELSE IF st.listeners[i].type \in RegistrarTypes
       THEN registeringListener(logged, i)
       ELSE observerListener(logged, i, items)

\* the body of the loop of updateListeners for the listener at index i
listenerStep(st, i) ==
    LET copy == slice(st.heap, ProjectsRef)
    IN listenerFn([st EXCEPT !.heap = copy.heap], i, copy.ref)

\* for (const listenerFn of this.listeners) listenerFn(this.projects.slice())
RECURSIVE updateListenersFrom(_, _)
updateListenersFrom(st, i) ==
    IF i > Len(st.listeners) THEN st
    ELSE updateListenersFrom(listenerStep(st, i), i + 1)

\* (a loop that starts one listener too late)
updateListenersSkipsFirst(st) ==
    updateListenersFrom([st EXCEPT !.broadcasts = @ + 1], 2)
updateListeners(st) ==
    updateListenersFrom([st EXCEPT !.broadcasts = @ + 1], 1)

\* (unshift in place of push)
addProjectUnshift(st, title, description, manday, id) ==
    updateListeners(
        [st EXCEPT !.addCalls = Append(@, [title |-> title,
                                           description |-> description,
                                           manday |-> manday]),
                   !.objs = Append(@, Project(id, title, description, manday, Active)),
                   !.heap[ProjectsRef] = <<Len(st.objs) + 1>> \o @])
\* addProject up to this.projects.push(newProject)
pushProject(st, title, description, manday, id) ==
    LET newProject == Project(id, title, description, manday, Active)
        ref == Len(st.objs) + 1
    IN [st EXCEPT !.addCalls = Append(@, [title |-> title,
                                          description |-> description,
                                          manday |-> manday]),
                  !.objs = Append(@, newProject),
                  !.heap[ProjectsRef] = Append(@, ref)]

\* ProjectState.addProject; id is what Math.random().toString() returned
addProject(st, title, description, manday, id) ==
    updateListeners(pushProject(st, title, description, manday, id))

\* (updateListeners called outside the if)
moveProjectAlwaysNotifies(st, projectId, newStatus) ==
    LET called == [st EXCEPT !.moveCalls =
                      Append(@, [projectId |-> projectId, newStatus |-> newStatus])]
        arr == st.heap[ProjectsRef]
        k == find(st.objs, arr, projectId)
    IN updateListeners(
           IF k # 0 /\ st.objs[arr[k]].status # newStatus
           THEN [called EXCEPT !.objs[arr[k]].status = newStatus]
           ELSE called)
\* (the moved project taken out of the array and pushed again)
moveProjectReinserts(st, projectId, newStatus) ==
    LET called == [st EXCEPT !.moveCalls =
                      Append(@, [projectId |-> projectId, newStatus |-> newStatus])]
        arr == st.heap[ProjectsRef]
        k == find(st.objs, arr, projectId)
    IN IF k # 0 /\ st.objs[arr[k]].status # newStatus
       THEN updateListeners(
                [called EXCEPT !.objs[arr[k]].status = newStatus,
                               !.heap[ProjectsRef] =
                                   SubSeq(arr, 1, k - 1) \o SubSeq(arr, k + 1, Len(arr))
                                       \o <<arr[k]>>])
       ELSE called
\* ProjectState.moveProject
moveProject(st, projectId, newStatus) ==
    LET called == [st EXCEPT !.moveCalls =
                      Append(@, [projectId |-> projectId, newStatus |-> newStatus])]
        arr == st.heap[ProjectsRef]
        k == find(st.objs, arr, projectId)
    IN IF k # 0 /\ st.objs[arr[k]].status # newStatus
       THEN updateListeners([called EXCEPT !.objs[arr[k]].status = newStatus])
       ELSE called

\* arrays no variable refers to any more are dropped, and the array a listener
\* keeps is named after the first listener that keeps it (references have no
\* meaning beyond identity)
Collect(st) ==
    LET keepers == {i \in 1..Len(st.held) : st.held[i] # NoArray}
        name(r) == IF r = ProjectsRef THEN ProjectsRef
                   ELSE CHOOSE i \in keepers :
                            /\ st.held[i] = r
                            /\ \A j \in keepers : st.held[j] = r => i <= j
        live == {ProjectsRef} \cup {st.held[i] : i \in keepers}
    IN [st EXCEPT
           !.heap = [a \in {name(r) : r \in live} |->
                        st.heap[CHOOSE r \in live : name(r) = a]],
           !.held = [i \in 1..Len(st.held) |->
                        IF i \in keepers THEN name(st.held[i]) ELSE NoArray]]

\* the state a handler leaves behind
Finish(st0, ev) ==
    LET st == Collect(st0)
    IN /\ objs' = st.objs
       /\ heap' = st.heap
       /\ listeners' = st.listeners
       /\ held' = st.held
       /\ assignedProjects' = st.assigned
       /\ calls' = st.calls
       /\ broadcasts' = st.broadcasts
       /\ addCalls' = st.addCalls
       /\ moveCalls' = st.moveCalls
       /\ lastEvent' = ev

Event(type, col, arg) == [type |-> type, col |-> col, arg |-> arg]

\* ---------------------------------------------------------------- actions
\* the store as ProjectState.getInstance() first returns it, with the registry
\* as given
InitWith(registry) ==
    /\ objs = <<>>
    /\ heap = [a \in {ProjectsRef} |-> <<>>]
    /\ listeners = registry
    /\ held = [i \in 1..Len(registry) |-> NoArray]
    /\ assignedProjects = [c \in ColumnTypes |-> <<>>]
    /\ droppable = [c \in ColumnTypes |-> FALSE]
    /\ drag = NoDrag
    /\ lastEvent = Event("init", "none", 0)
    /\ addCalls = <<>>
    /\ moveCalls = <<>>
    /\ broadcasts = 0
    /\ calls = <<>>
    /\ instance = 1
    /\ created = 1
    /\ form = NoInput
    /\ loop = NoLoop

\* the page once the script has run: new ProjectList('active') and then
\* new ProjectList('finished') have each registered their listener
Init == InitWith(<<ColumnFn("active"), ColumnFn("finished")>>)

\* projectState.addProject(title, description, manday)
AddProject ==
    \E args \in ProjectArgs, id \in RandomIds :
        /\ Len(heap[ProjectsRef]) < MaxProjects
        /\ Finish(addProject(Begin, args[1], args[2], args[3], id),
                  Event("addProject", "none", 0))
        /\ UNCHANGED <<droppable, drag, instance, created, form, loop>>

\* ProjectItem.dragStartHandler on the k-th item rendered in column c
DragStart ==
    \E c \in ColumnTypes :
      \E k \in 1..Len(assignedProjects[c]) :
        /\ ~drag.active
        /\ drag' = [active |-> TRUE, types |-> <<"text/plain">>,
                    data |-> objs[assignedProjects[c][k]].id,
                    src |-> assignedProjects[c][k], dropped |-> FALSE,
                    over |-> "none"]
        /\ Finish(Begin, Event("dragstart", c, 0))
        /\ UNCHANGED <<droppable, instance, created, form, loop>>

\* a gesture that starts outside the board: a file, or some text
ForeignPayloads ==
    { [types |-> <<"Files">>, data |-> ""],
      [types |-> <<"text/plain">>, data |-> "nonexistent"] }

ForeignDragEnter ==
    \E p \in ForeignPayloads :
        /\ ~drag.active
        /\ drag' = [active |-> TRUE, types |-> p.types, data |-> p.data,
                    src |-> 0, dropped |-> FALSE, over |-> "none"]
        /\ Finish(Begin, Event("foreigndrag", "none", 0))
        /\ UNCHANGED <<droppable, instance, created, form, loop>>

\* ProjectList.dragOverHandler; the platform sends dragover to the column the
\* pointer is over, and the pointer reaches a column from outside the columns
DragOver ==
    \E c \in ColumnTypes :
        /\ drag.active /\ ~drag.dropped
        /\ drag.over \in {"none", c}
        /\ IF Len(drag.types) > 0 /\ drag.types[1] = "text/plain"
           THEN /\ droppable' = [droppable EXCEPT ![c] = TRUE]
                /\ Finish(Begin, Event("dragover", c, 1))
           ELSE /\ droppable' = droppable
                /\ Finish(Begin, Event("dragover", c, 0))
        /\ drag' = [drag EXCEPT !.over = c]
        /\ UNCHANGED <<instance, created, form, loop>>

\* a dragLeaveHandler that clears the marker of every column
DragLeaveClearsAll ==
    \E c \in ColumnTypes :
        /\ drag.active /\ ~drag.dropped
        /\ drag.over = c
        /\ droppable' = [d \in ColumnTypes |-> FALSE]
        /\ Finish(Begin, Event("dragleave", c, 0))
        /\ drag' = [drag EXCEPT !.over = "none"]
        /\ UNCHANGED <<instance, created, form, loop>>

\* ProjectList.dragLeaveHandler; the platform sends dragleave to the column the
\* pointer leaves, also when the gesture is given up over it
DragLeave ==
    \E c \in ColumnTypes :
        /\ drag.active /\ ~drag.dropped
        /\ drag.over = c
        /\ droppable' = [droppable EXCEPT ![c] = FALSE]
        /\ Finish(Begin, Event("dragleave", c, 0))
        /\ drag' = [drag EXCEPT !.over = "none"]
        /\ UNCHANGED <<instance, created, form, loop>>

\* DataTransfer.getData(format): the data stored for the format, "" if none
getData(dt, format) ==
    IF \E k \in 1..Len(dt.types) : dt.types[k] = format THEN dt.data ELSE ""

\* ProjectList.dropHandler, on the column the pointer is over (the platform
\* sends no dragleave after a drop)
Drop ==
    \E c \in ColumnTypes :
        /\ drag.active /\ ~drag.dropped
        /\ drag.over = c
        /\ Finish(moveProject(Begin, getData(drag, "text/plain"), StatusOf(c)),
                  Event("drop", c, 0))
        /\ drag' = [drag EXCEPT !.dropped = TRUE]
        /\ UNCHANGED <<droppable, instance, created, form, loop>>

\* ProjectItem.dragEndHandler: the gesture is over, after a drop or after the
\* pointer has left the columns
DragEnd ==
    /\ drag.active /\ drag.src # 0
    /\ drag.dropped \/ drag.over = "none"
    /\ drag' = NoDrag
    /\ Finish(Begin, Event("dragend", "none", 0))
    /\ UNCHANGED <<droppable, instance, created, form, loop>>

\* the end of a gesture that started outside the board: no handler runs
ForeignDragEnd ==
    /\ drag.active /\ drag.src = 0
    /\ drag.dropped \/ drag.over = "none"
    /\ drag' = NoDrag
    /\ Finish(Begin, Event("foreignend", "none", 0))
    /\ UNCHANGED <<droppable, instance, created, form, loop>>

Next ==
    \/ AddProject
    \/ DragStart
    \/ ForeignDragEnter
    \/ DragOver
    \/ DragLeave
    \/ Drop
    \/ DragEnd
    \/ ForeignDragEnd

\* the running page: the form and the drag-and-drop events
Spec == Init /\ [][Next]_vars

\* ------------------------------------------- the store used as a library
\* projectState.moveProject(projectId, newStatus)
MoveProject ==
    \E projectId \in MoveIds, newStatus \in ProjectStatus :
        /\ Finish(moveProject(Begin, projectId, newStatus),
                  Event("moveProject", "none", 0))
        /\ UNCHANGED <<droppable, drag, instance, created, form, loop>>

\* projectState.addListener(listenerFn) with a function not registered before
AddListener ==
    /\ Len(listeners) < MaxListeners
    /\ Finish(addListener(Begin, ObserverFn(Cardinality(Observers(listeners)) + 1)),
              Event("addListener", "none", 0))
    /\ UNCHANGED <<droppable, drag, instance, created, form, loop>>

\* projectState.addListener(listenerFn) with the function registered at index k
AddListenerAgain ==
    /\ Len(listeners) < MaxListeners
    /\ \E k \in 1..Len(listeners) :
          Finish(addListener(Begin, listeners[k]), Event("addListener", "none", k))
    /\ UNCHANGED <<droppable, drag, instance, created, form, loop>>

\* what a listener may do to the array it was given: remove its last element,
\* reverse it, or add an element to it
pop(arr) == SubSeq(arr, 1, Len(arr) - 1)
reverse(arr) == [k \in 1..Len(arr) |-> arr[Len(arr) + 1 - k]]
push(arr, r) == Append(arr, r)

\* listener i changes the array it was given (items.pop(), items.reverse(),
\* items.push(items[0])) and lets go of it
ListenerMutatesArray ==
    \E i \in 1..Len(listeners) :
        /\ held[i] # NoArray
        /\ heap[held[i]] # <<>>
        /\ \E changed \in { pop(heap[held[i]]), reverse(heap[held[i]]),
                             push(heap[held[i]], heap[held[i]][1]) } :
              Finish([Begin EXCEPT !.heap[held[i]] = changed,
                                   !.held[i] = NoArray],
                     Event("mutateArray", "none", i))
        /\ UNCHANGED <<droppable, drag, instance, created, form, loop>>

\* listener i changes a record of the array it was given
\* (items[k].status = the other status) and lets go of the array
ListenerMutatesRecord ==
    \E i \in 1..Len(listeners) :
        /\ held[i] # NoArray
        /\ \E k \in 1..Len(heap[held[i]]) :
              LET r == heap[held[i]][k]
              IN Finish([Begin EXCEPT !.objs[r].status = 1 - @,
                                      !.held[i] = NoArray],
                        Event("mutateRecord", "none", i))
        /\ UNCHANGED <<droppable, drag, instance, created, form, loop>>

\* the store right after const projectState = ProjectState.getInstance(),
\* before any view has subscribed
InitStore == InitWith(<<>>)

NextStore ==
    \/ AddProject
    \/ MoveProject
    \/ AddListener
    \/ ListenerMutatesArray
    \/ ListenerMutatesRecord

\* the store driven through its public methods, with listeners that keep and
\* change what they are given
StoreSpec == InitStore /\ [][NextStore]_vars

NextRegistry ==
    \/ AddProject
    \/ MoveProject
    \/ AddListener
    \/ AddListenerAgain

\* the store driven through its public methods, with listener functions that
\* may be registered more than once
RegistrySpec == InitStore /\ [][NextRegistry]_vars

\* ------------------------------------------------- the store's instance
\* a getInstance that constructs a store at every call
getInstanceAlwaysNew(inst, n) ==
    [instance |-> n + 1, created |-> n + 1, result |-> n + 1]

\* static getInstance(): the instance if there is one, else a new ProjectState
\* that it stores in ProjectState.instance
getInstance(inst, n) ==
    IF inst # 0
    THEN [instance |-> inst, created |-> n, result |-> inst]
    ELSE [instance |-> n + 1, created |-> n + 1, result |-> n + 1]

\* the fields of a ProjectState as its constructor leaves them
NewProjectState ==
    [Begin EXCEPT !.objs = <<>>, !.heap = [a \in {ProjectsRef} |-> <<>>],
                  !.listeners = <<>>, !.held = <<>>]

\* a call of ProjectState.getInstance(); objs, heap and listeners are the
\* fields of the object ProjectState.instance refers to
GetInstance ==
    LET r == getInstance(instance, created)
    IN /\ r.created <= MaxInstances
       /\ instance' = r.instance
       /\ created' = r.created
       /\ Finish(IF r.created > created THEN NewProjectState ELSE Begin,
                 Event("getInstance", "none", r.result))
       /\ UNCHANGED <<droppable, drag, form, loop>>

\* the script loaded, before line 89 has called getInstance
InitLoad ==
    /\ objs = <<>>
    /\ heap = [a \in {ProjectsRef} |-> <<>>]
    /\ listeners = <<>>
    /\ held = <<>>
    /\ assignedProjects = [c \in ColumnTypes |-> <<>>]
    /\ droppable = [c \in ColumnTypes |-> FALSE]
    /\ drag = NoDrag
    /\ lastEvent = Event("load", "none", 0)
    /\ addCalls = <<>>
    /\ moveCalls = <<>>
    /\ broadcasts = 0
    /\ calls = <<>>
    /\ instance = 0
    /\ created = 0
    /\ form = NoInput
    /\ loop = NoLoop

\* the store's methods are reached through the object getInstance returned
NextInstance ==
    \/ GetInstance
    \/ instance # 0 /\ AddProject
    \/ instance # 0 /\ MoveProject
    \/ instance # 0 /\ AddListener

\* the store from the loading of the script on
InstanceSpec == InitLoad /\ [][NextInstance]_vars

\* --------------------------------------------------------------- the form
\* what the user may have typed into the three inputs
TitleInputs == {"", " ", "A"}
DescriptionInputs == {"", "abcd", "     ", "desc1"}
MandayInputs == {"", "0", "1", "1000", "1001", "abc"}

\* the characters of the strings above
Chars(s) ==
    CASE s = "" -> <<>>
      [] s = " " -> <<" ">>
      [] s = "A" -> <<"A">>
      [] s = "abcd" -> <<"a", "b", "c", "d">>
      [] s = "     " -> <<" ", " ", " ", " ", " ">>
      [] s = "desc1" -> <<"d", "e", "s", "c", "1">>
      [] s = "0" -> <<"0">>
      [] s = "1" -> <<"1">>
      [] s = "1000" -> <<"1", "0", "0", "0">>
      [] s = "1001" -> <<"1", "0", "0", "1">>
      [] s = "abc" -> <<"a", "b", "c">>

\* String.prototype.trim on a sequence of characters
RECURSIVE trimStart(_)
trimStart(cs) ==
    IF cs # <<>> /\ Head(cs) = " " THEN trimStart(Tail(cs)) ELSE cs

RECURSIVE trimEnd(_)
trimEnd(cs) ==
    IF cs # <<>> /\ cs[Len(cs)] = " "
    THEN trimEnd(SubSeq(cs, 1, Len(cs) - 1))
    ELSE cs

trim(cs) == trimEnd(trimStart(cs))

\* the value of Number(string) that is not a number; no input denotes it
NaN == -1000000

DigitChars == <<"0", "1", "2", "3", "4", "5", "6", "7", "8", "9">>
IsDigit(c) == \E d \in 1..Len(DigitChars) : DigitChars[d] = c
DigitValue(c) == (CHOOSE d \in 1..Len(DigitChars) : DigitChars[d] = c) - 1

\* the number a non-empty sequence of digits denotes
RECURSIVE digitsValue(_)
digitsValue(cs) ==
    IF cs = <<>> THEN 0
    ELSE Radix * digitsValue(SubSeq(cs, 1, Len(cs) - 1)) + DigitValue(cs[Len(cs)])

\* the unary plus of +enteredManday: white space around the number is
\* skipped, the empty string is 0, what is not a decimal number is NaN
ToNumber(cs) ==
    LET t == trim(cs)
    IN IF t = <<>> THEN 0
       ELSE IF \A k \in 1..Len(t) : IsDigit(t[k]) THEN digitsValue(t)
       ELSE NaN

\* Number.prototype.toString, as a sequence of characters
RECURSIVE digitsOf(_)
digitsOf(n) ==
    IF n < Radix THEN <<DigitChars[n + 1]>>
    ELSE Append(digitsOf(n \div Radix), DigitChars[(n % Radix) + 1])

numberToString(n) ==
    IF n = NaN THEN <<"N", "a", "N">>
    ELSE IF n < 0 THEN <<"-">> \o digitsOf(0 - n)
    ELSE digitsOf(n)

\* the Validatable objects gatherUserInput builds; an absent optional
\* property is the empty set
Validatable(type, value, required, minLength, maxLength, min, max) ==
    [type |-> type, value |-> value, required |-> required,
     minLength |-> minLength, maxLength |-> maxLength, min |-> min, max |-> max]

\* validatableInput.value.toString()
valueToString(v) ==
    IF v.type = "string" THEN Chars(v.value) ELSE numberToString(v.value)

\* function validate(validatableInput); a comparison with NaN is false
validate(v) ==
    /\ v.required => Len(trim(valueToString(v))) # 0
    /\ (v.minLength # {} /\ v.type = "string") =>
          \A m \in v.minLength : Len(Chars(v.value)) >= m
    /\ (v.maxLength # {} /\ v.type = "string") =>
          \A m \in v.maxLength : Len(Chars(v.value)) <= m
    /\ (v.min # {} /\ v.type = "number") =>
          \A m \in v.min : v.value # NaN /\ v.value >= m
    /\ (v.max # {} /\ v.type = "number") =>
          \A m \in v.max : v.value # NaN /\ v.value <= m

titleValidatable(f) ==
    Validatable("string", f.title, TRUE, {}, {}, {}, {})
descriptionValidatable(f) ==
    Validatable("string", f.description, TRUE, {MinDescription}, {}, {}, {})
mandayValidatable(f) ==
    Validatable("number", ToNumber(Chars(f.manday)), TRUE, {}, {},
                {MinManday}, {MaxManday})

\* a gatherUserInput that alerts only when all three inputs are invalid
gatherUserInputAllInvalid(f) ==
    IF /\ ~validate(titleValidatable(f))
       /\ ~validate(descriptionValidatable(f))
       /\ ~validate(mandayValidatable(f))
    THEN [alert |-> TRUE, input |-> <<>>]
    ELSE [alert |-> FALSE,
          input |-> <<f.title, f.description, ToNumber(Chars(f.manday))>>]

\* ProjectInput.gatherUserInput: alert('error') and nothing returned, or the
\* triple [enteredTitle, enteredDescription, +enteredManday]
gatherUserInput(f) ==
    IF \/ ~validate(titleValidatable(f))
       \/ ~validate(descriptionValidatable(f))
       \/ ~validate(mandayValidatable(f))
    THEN [alert |-> TRUE, input |-> <<>>]
    ELSE [alert |-> FALSE,
          input |-> <<f.title, f.description, ToNumber(Chars(f.manday))>>]

\* the user types into one of the three inputs
EnterInput ==
    /\ \/ \E t \in TitleInputs : form' = [form EXCEPT !.title = t]
       \/ \E d \in DescriptionInputs : form' = [form EXCEPT !.description = d]
       \/ \E m \in MandayInputs : form' = [form EXCEPT !.manday = m]
    /\ Finish(Begin, Event("input", "none", 0))
    /\ UNCHANGED <<droppable, drag, instance, created, loop>>

\* ProjectInput.submitHandler; the event's arg tells whether alert was called
Submit ==
    LET userInput == gatherUserInput(form)
    IN /\ IF userInput.alert
          THEN /\ Finish(Begin, Event("submit", "none", 1))
               /\ form' = form
          ELSE /\ Len(heap[ProjectsRef]) < MaxProjects
               /\ \E id \in RandomIds :
                     Finish(addProject(Begin, userInput.input[1], userInput.input[2],
                                       userInput.input[3], id),
                            Event("submit", "none", 0))
               /\ form' = NoInput
       /\ UNCHANGED <<droppable, drag, instance, created, loop>>

NextForm ==
    \/ EnterInput
    \/ Submit

\* the page with its form: the user types and submits
FormSpec == Init /\ [][NextForm]_vars

\* ------------------------------------------- a broadcast, call by call
\* the handler in progress, with what it has logged so far
Resume ==
    [Begin EXCEPT !.calls = calls, !.broadcasts = broadcasts,
                  !.addCalls = addCalls, !.moveCalls = moveCalls]

\* an iterator over a copy of the registry taken when the loop began
hasNextOfCopy(registry, it) == it.next <= it.start

\* the array iterator of for (const listenerFn of this.listeners): it reads
\* the length of the array itself each time it is asked for the next element
hasNext(registry, it) == it.next <= Len(registry)

\* projectState.addListener with a listener that registers listeners
AddRegistrar ==
    /\ loop = NoLoop
    /\ Len(listeners) < MaxListeners
    /\ \E type \in RegistrarTypes :
          Finish(addListener(Begin, RegistrarFn(type)),
                 Event("addListener", "none", 0))
    /\ UNCHANGED <<droppable, drag, instance, created, form, loop>>

\* addProject up to the call of updateListeners and the start of its loop
BeginAddProject ==
    /\ loop = NoLoop
    /\ Len(heap[ProjectsRef]) < MaxProjects
    /\ \E args \in ProjectArgs, id \in RandomIds :
          LET st == pushProject(Begin, args[1], args[2], args[3], id)
          IN Finish([st EXCEPT !.broadcasts = @ + 1],
                    Event("addProject", "none", 0))
    /\ loop' = [next |-> 1, start |-> Len(listeners)]
    /\ UNCHANGED <<droppable, drag, instance, created, form>>

\* one turn of the loop: listenerFn(this.projects.slice()) for the next
\* listener of the registry
InvokeListener ==
    /\ loop # NoLoop
    /\ hasNext(listeners, loop)
    /\ LET st == listenerStep(Resume, loop.next)
       IN /\ Len(st.listeners) <= MaxRegistered
          /\ Finish(st, Event("listener", "none", loop.next))
    /\ loop' = [loop EXCEPT !.next = @ + 1]
    /\ UNCHANGED <<droppable, drag, instance, created, form>>

\* the loop is over: updateListeners and addProject return
ReturnFromBroadcast ==
    /\ loop # NoLoop
    /\ ~hasNext(listeners, loop)
    /\ Finish(Resume, Event("return", "none", loop.start))
    /\ loop' = NoLoop
    /\ UNCHANGED <<droppable, drag, instance, created, form>>

NextBroadcast ==
    \/ loop = NoLoop /\ AddListener
    \/ AddRegistrar
    \/ BeginAddProject
    \/ InvokeListener
    \/ ReturnFromBroadcast

\* the store with listeners that register listeners, its broadcasts taken
\* one listener call at a time
BroadcastSpec == InitStore /\ [][NextBroadcast]_vars

\* ------------------------------------------------------------- properties
\* indices of the store's records that carry this id, before the step
WithId(projectId) ==
    {k \in 1..Len(heap[ProjectsRef]) : objs[heap[ProjectsRef][k]].id = projectId}

\* the first of a non-empty set of indices
First(K) == CHOOSE k \in K : \A j \in K : k <= j

\* the step ran moveProject once (called directly, or by the drop handler)
IsMove == lastEvent'.type \in {"moveProject", "drop"} /\ Len(moveCalls') = 1

\* C1: after an addProject, or a moveProject that changed a record, every
\* listener of the registry has been invoked exactly once, in registration
\* order, each with a snapshot that shows the store as the mutation left it
\* (the new record last in it, the moved record with its new status).
C1_BroadcastCompleteness ==
    [][ (/\ lastEvent'.type \in {"addProject", "moveProject"}
         /\ StoreItems' # StoreItems)
        => /\ broadcasts' = 1
           /\ Len(calls') = Len(listeners')
           /\ \A i \in 1..Len(calls') :
                 /\ calls'[i].listener = i
                 /\ calls'[i].items = StoreItems'
                 /\ lastEvent'.type = "addProject" =>
                       /\ Len(calls'[i].items) = Len(StoreItems) + 1
                       /\ calls'[i].items[Len(calls'[i].items)].status = Active
                 /\ lastEvent'.type = "moveProject" =>
                       \E k \in 1..Len(calls'[i].items) :
                           /\ calls'[i].items[k].id = moveCalls'[1].projectId
                           /\ calls'[i].items[k].status = moveCalls'[1].newStatus
                           /\ StoreItems[k].status # moveCalls'[1].newStatus
      ]_vars

\* a moveProject changed a record and both registered listeners were invoked
C1_Witness ==
    /\ lastEvent.type = "moveProject"
    /\ broadcasts = 1
    /\ Len(listeners) = 2
    /\ Len(calls) = 2
    /\ Len(StoreItems) = 2

\* C2: moveProject(id, s), called when a record of the store with that id
\* already has status s, invokes no listener and leaves the store's sequence
\* unchanged.
C2_MoveIdempotent ==
    [][ (/\ IsMove
         /\ \E k \in WithId(moveCalls'[1].projectId) :
               objs[heap[ProjectsRef][k]].status = moveCalls'[1].newStatus)
        => /\ broadcasts' = 0
           /\ calls' = <<>>
           /\ StoreItems' = StoreItems
      ]_vars

\* C3: moveProject(id, s) with an id no record of the store carries invokes
\* no listener and leaves the store's objects and array unchanged.
C3_MoveUnknownId ==
    [][ (IsMove /\ WithId(moveCalls'[1].projectId) = {})
        => /\ broadcasts' = 0
           /\ calls' = <<>>
           /\ objs' = objs
           /\ heap'[ProjectsRef] = heap[ProjectsRef]
      ]_vars

\* moveProject("", s) has run on a store of two records, neither with id ""
C3_Witness ==
    /\ lastEvent.type = "moveProject"
    /\ moveCalls = <<[projectId |-> "", newStatus |-> Finished]>>
    /\ Len(StoreItems) = 2
    /\ broadcasts = 0

\* C4: when the first record with the id moveProject(id, s) is given has a
\* status other than s, the call sets that record's status to s, broadcasts
\* once and changes nothing else: the array is the same, every other record
\* and every other field of the moved record are as before.
C4_MoveEffect ==
    [][ (/\ IsMove
         /\ WithId(moveCalls'[1].projectId) # {}
         /\ objs[heap[ProjectsRef][First(WithId(moveCalls'[1].projectId))]].status
                # moveCalls'[1].newStatus)
        => LET r == heap[ProjectsRef][First(WithId(moveCalls'[1].projectId))]
           IN /\ broadcasts' = 1
              /\ heap'[ProjectsRef] = heap[ProjectsRef]
              /\ objs' = [objs EXCEPT ![r].status = moveCalls'[1].newStatus]
      ]_vars

\* moveProject has moved the first of two records to Finished; the second is
\* still Active
C4_Witness ==
    /\ lastEvent.type = "moveProject"
    /\ broadcasts = 1
    /\ Len(StoreItems) = 2
    /\ moveCalls = <<[projectId |-> StoreItems[1].id, newStatus |-> Finished]>>
    /\ StoreItems[1].status = Finished
    /\ StoreItems[2].status = Active

\* C5: addProject(title, description, manday), whatever its arguments, appends
\* one record with status Active and those arguments at the end of the store's
\* sequence, leaves the records already there and their order unchanged, and
\* broadcasts once.
C5_AddEffect ==
    [][ lastEvent'.type = "addProject"
        => /\ Len(addCalls') = 1
           /\ Len(StoreItems') = Len(StoreItems) + 1
           /\ SubSeq(StoreItems', 1, Len(StoreItems)) = StoreItems
           /\ LET new == StoreItems'[Len(StoreItems')]
              IN /\ new.status = Active
                 /\ new.title = addCalls'[1].title
                 /\ new.description = addCalls'[1].description
                 /\ new.manday = addCalls'[1].manday
           /\ broadcasts' = 1
      ]_vars

\* addProject("", "", 0) has appended a record after a record already moved to
\* Finished
C5_Witness ==
    /\ lastEvent.type = "addProject"
    /\ addCalls = <<[title |-> "", description |-> "", manday |-> 0]>>
    /\ Len(StoreItems) = 2
    /\ StoreItems[1].status = Finished
    /\ StoreItems[2].title = ""
    /\ broadcasts = 1

\* C6: no two records of the store share an id.
C6_IdsDistinct ==
    \A i, j \in 1..Len(StoreItems) :
        i # j => StoreItems[i].id # StoreItems[j].id

\* C7: when a listener adds, removes or reorders elements of the array it was
\* given, the store's array, the store's records, the arrays the other
\* listeners keep and the columns' lists are as before.
C7_SnapshotIsolation ==
    [][ lastEvent'.type = "mutateArray"
        => /\ heap'[ProjectsRef] = heap[ProjectsRef]
           /\ objs' = objs
           /\ assignedProjects' = assignedProjects
           /\ \A j \in 1..Len(held) :
                 (j # lastEvent'.arg /\ held[j] # NoArray)
                 => /\ held'[j] # NoArray
                    /\ heap'[held'[j]] = heap[held[j]]
      ]_vars

\* a listener has changed the array it was given while the store holds two
\* records and the other listener still keeps its own array of the two
C7_Witness ==
    /\ lastEvent.type = "mutateArray"
    /\ Len(heap[ProjectsRef]) = 2
    /\ Len(listeners) = 2
    /\ \E j \in 1..Len(held) :
          /\ j # lastEvent.arg
          /\ held[j] # NoArray
          /\ heap[held[j]] = heap[ProjectsRef]

\* C8: a change a listener makes to a record of the snapshot it was given
\* does not show in the store.
C8_RecordIsolation ==
    [][ lastEvent'.type = "mutateRecord" => StoreItems' = StoreItems ]_vars

\* C9: a drop on a column calls moveProject exactly once, with the gesture's
\* text/plain data (the id of the dragged item's record) and the column's
\* status; the drop leaves both columns' markers as they were, and a marker
\* is removed only by a drag-leave on its column.
C9_DropTransition ==
    [][ /\ lastEvent'.type = "drop"
           => /\ Len(moveCalls') = 1
              /\ moveCalls'[1].projectId = drag.data
              /\ drag.src # 0 => moveCalls'[1].projectId = objs[drag.src].id
              /\ lastEvent'.col = "active" => moveCalls'[1].newStatus = Active
              /\ lastEvent'.col = "finished" => moveCalls'[1].newStatus = Finished
              /\ droppable' = droppable
        /\ \A c \in ColumnTypes :
              (droppable[c] /\ ~droppable'[c]) => lastEvent' = Event("dragleave", c, 0)
      ]_vars

\* an item of the active column has been dropped on the finished column, whose
\* marker, set by the drag-over before, is still set
C9_Witness ==
    /\ lastEvent = Event("drop", "finished", 0)
    /\ drag.src # 0
    /\ moveCalls = <<[projectId |-> objs[drag.src].id, newStatus |-> Finished]>>
    /\ objs[drag.src].status = Finished
    /\ broadcasts = 1
    /\ droppable["finished"]

\* C10: dropping an item on the column whose status its record already has
\* causes no broadcast and leaves the store's sequence and both columns' lists
\* unchanged.
C10_SameColumnDrop ==
    [][ (/\ lastEvent'.type = "drop"
         /\ drag.src # 0
         /\ relevant(lastEvent'.col, objs[drag.src].status))
        => /\ Len(moveCalls') = 1
           /\ broadcasts' = 0
           /\ StoreItems' = StoreItems
           /\ assignedProjects' = assignedProjects
      ]_vars

\* the payload of the gesture is of the plain-text kind
PlainText(dt) == Len(dt.types) > 0 /\ dt.types[1] = "text/plain"

\* the store and the record of what the handler did to it are as before
StoreUntouched ==
    /\ objs' = objs /\ heap' = heap /\ listeners' = listeners
    /\ assignedProjects' = assignedProjects
    /\ broadcasts' = 0 /\ addCalls' = <<>> /\ moveCalls' = <<>>

\* C11: a drag-over on a column is accepted, and the column marked
\* 'droppable', exactly when the payload is of the plain-text kind; after a
\* drag-over with any other payload the column carries no marker
C11_DragOverAcceptance ==
    [][lastEvent'.type = "dragover" =>
         LET c == lastEvent'.col
         IN  /\ (lastEvent'.arg = 1) <=> PlainText(drag)
             /\ droppable'[c] <=> PlainText(drag)]_vars

\* C12: a drag-leave on a column leaves that column without the marker,
\* whatever its marker and the payload were, and changes neither the other
\* column's marker nor the store
C12_DragLeaveReset ==
    [][lastEvent'.type = "dragleave" =>
         LET c == lastEvent'.col
         IN  /\ ~droppable'[c]
             /\ \A d \in ColumnTypes \ {c} : droppable'[d] = droppable[d]
             /\ StoreUntouched]_vars

\* a file drag has just left a column while the other column is still marked
C12_Witness ==
    /\ lastEvent.type = "dragleave"
    /\ ~PlainText(drag)
    /\ \E d \in ColumnTypes \ {lastEvent.col} : droppable[d]
    /\ Len(heap[ProjectsRef]) > 0

\* the number of indices at which the registry holds the function f
Registrations(registry, f) ==
    Cardinality({j \in 1..Len(registry) : registry[j] = f})

\* the number of invocations of the function f logged in cs
Invocations(registry, cs, f) ==
    Cardinality({i \in 1..Len(cs) : registry[cs[i].listener] = f})

\* C13: the registry is an append-only list without de-duplication:
\* addListener(fn) appends fn at the end even when fn is registered already,
\* no step removes or reorders an entry, and a broadcast invokes every
\* function as many times as it is registered
C13_RegistryAppendOnly ==
    [][/\ Len(listeners') >= Len(listeners)
       /\ SubSeq(listeners', 1, Len(listeners)) = listeners
       /\ lastEvent'.type = "addListener" =>
             /\ Len(listeners') = Len(listeners) + 1
             /\ lastEvent'.arg > 0 =>
                   listeners'[Len(listeners')] = listeners[lastEvent'.arg]
             /\ lastEvent'.arg = 0 =>
                   Registrations(listeners, listeners'[Len(listeners')]) = 0
       /\ lastEvent'.type # "addListener" => listeners' = listeners
       /\ broadcasts' > 0 =>
             \A j \in 1..Len(listeners') :
                Invocations(listeners', calls', listeners'[j])
                   = broadcasts' * Registrations(listeners', listeners'[j])]_vars

\* a broadcast has just invoked twice a function that is registered twice
C13_Witness ==
    /\ broadcasts = 1
    /\ \E j \in 1..Len(listeners) :
          /\ Registrations(listeners, listeners[j]) = 2
          /\ Invocations(listeners, calls, listeners[j]) = 2

\* C14: there is one store: the first getInstance call constructs it, every
\* later call returns that same object, no second one is ever constructed,
\* and no step replaces the object or empties its records or its registry
C14_SingleStore ==
    [][/\ created' <= 1
       /\ instance # 0 => instance' = instance
       /\ (instance = 0 /\ instance' # 0) => lastEvent'.type = "getInstance"
       /\ lastEvent'.type = "getInstance" =>
             /\ instance' # 0
             /\ lastEvent'.arg = instance'
             /\ instance # 0 => StoreUntouched
       /\ Len(heap'[ProjectsRef]) >= Len(heap[ProjectsRef])
       /\ Len(listeners') >= Len(listeners)]_vars

\* a later getInstance call has returned the store with its record and its
\* listener
C14_Witness ==
    /\ lastEvent = Event("getInstance", "none", 1)
    /\ instance = 1 /\ created = 1
    /\ Len(heap[ProjectsRef]) > 0
    /\ Len(listeners) > 0

\* the three conditions under which the form is refused, on the text typed
TitleEmpty(f) == Len(trim(Chars(f.title))) = 0
DescriptionShort(f) == Len(Chars(f.description)) < MinDescription
MandayOutOfRange(f) ==
    LET n == ToNumber(Chars(f.manday))
    IN n = NaN \/ n < MinManday \/ n > MaxManday

\* C15: a submit whose title is empty after trimming, whose description has
\* fewer than 5 characters or whose effort is not a number within 1..1000
\* alerts the user, calls no addProject, adds no record and broadcasts
\* nothing; a submit that adds a record passed all three checks, and the
\* record it adds has an effort within 1..1000
C15_ValidationGuardsStore ==
    [][lastEvent'.type = "submit" =>
         /\ (TitleEmpty(form) \/ DescriptionShort(form) \/ MandayOutOfRange(form))
               => /\ lastEvent'.arg = 1
                  /\ StoreUntouched
         /\ Len(heap'[ProjectsRef]) > Len(heap[ProjectsRef])
               => /\ ~TitleEmpty(form) /\ ~DescriptionShort(form)
                  /\ ~MandayOutOfRange(form)
                  /\ lastEvent'.arg = 0
                  /\ LET new == objs'[heap'[ProjectsRef][Len(heap'[ProjectsRef])]]
                     IN new.manday \in MinManday..MaxManday]_vars

\* a submit with a valid title and description but an effort of 1001 has
\* just been refused, with a record in the store
C15_Witness ==
    /\ lastEvent = Event("submit", "none", 1)
    /\ form = [title |-> "A", description |-> "desc1", manday |-> "1001"]
    /\ Len(heap[ProjectsRef]) = 1
    /\ broadcasts = 0

\* the store's sequence, field for field, after the step
StoreItemsAfter == Items(objs', heap'[ProjectsRef])

\* C16: every call of a store operation changes the store's state exactly
\* when it broadcasts
C16_ChangeIffBroadcast ==
    [][lastEvent'.type \in {"addProject", "moveProject", "addListener"} =>
         ((StoreItemsAfter # StoreItems \/ listeners' # listeners)
            <=> broadcasts' > 0)]_vars

\* C16 as amended: every call of addProject or moveProject changes the
\* store's sequence exactly when it broadcasts, the broadcast delivers the
\* changed sequence, and neither touches the registry; addListener changes
\* the registry and nothing else, without a broadcast
C16_SequenceChangeIffBroadcast ==
    [][/\ lastEvent'.type \in {"addProject", "moveProject"} =>
             /\ (StoreItemsAfter # StoreItems) <=> broadcasts' > 0
             /\ broadcasts' <= 1
             /\ listeners' = listeners
             /\ \A i \in 1..Len(calls') :
                   /\ calls'[i].items = StoreItemsAfter
                   /\ calls'[i].items # StoreItems
       /\ lastEvent'.type = "addListener" =>
             /\ listeners' # listeners
             /\ StoreItemsAfter = StoreItems
             /\ broadcasts' = 0]_vars

\* addListener has just changed the registry of a store that holds a record,
\* without a broadcast
C16_Witness ==
    /\ lastEvent.type = "addListener"
    /\ Len(listeners) = 2
    /\ Len(heap[ProjectsRef]) > 0
    /\ broadcasts = 0 /\ calls = <<>>

\* the references of the store's records that have the status of the column
Shown(type) ==
    SelectSeq(heap[ProjectsRef], LAMBDA r : objs[r].status = StatusOf(type))

\* C17: between events each column's assignedProjects is the subsequence of
\* the store's records with the column's status, in store order, every
\* record is shown in exactly one column, and right after a drop that moved
\* a record the record is shown in the column it was dropped on only
C17_ColumnsPartitionStore ==
    /\ \A c \in ColumnTypes : assignedProjects[c] = Shown(c)
    /\ \A k \in 1..Len(heap[ProjectsRef]) :
          Cardinality({p \in {<<c, j>> : c \in ColumnTypes, j \in 1..MaxProjects} :
                         /\ p[2] <= Len(assignedProjects[p[1]])
                         /\ assignedProjects[p[1]][p[2]] = heap[ProjectsRef][k]}) = 1
    /\ (lastEvent.type = "drop" /\ broadcasts > 0) =>
          LET k == find(objs, heap[ProjectsRef], moveCalls[1].projectId)
              r == heap[ProjectsRef][k]
          IN /\ k # 0
             /\ \A c \in ColumnTypes :
                   (\E j \in 1..Len(assignedProjects[c]) : assignedProjects[c][j] = r)
                      <=> c = lastEvent.col

\* a drop has just moved the first of two records to the finished column
C17_Witness ==
    /\ lastEvent = Event("drop", "finished", 0)
    /\ broadcasts = 1
    /\ Len(heap[ProjectsRef]) = 2
    /\ assignedProjects["finished"] = <<heap[ProjectsRef][1]>>
    /\ assignedProjects["active"] = <<heap[ProjectsRef][2]>>

\* C18: the store's sequence only grows at its end: no step makes it
\* shorter, removes a record or changes the order of the records, and of a
\* record only the status ever changes
C18_StoreAppendOnly ==
    [][LET old == heap[ProjectsRef]
           new == heap'[ProjectsRef]
       IN /\ Len(new) >= Len(old)
          /\ \A k \in 1..Len(old) :
                /\ new[k] = old[k]
                /\ objs'[new[k]].id = objs[old[k]].id
                /\ objs'[new[k]].title = objs[old[k]].title
                /\ objs'[new[k]].description = objs[old[k]].description
                /\ objs'[new[k]].manday = objs[old[k]].manday]_vars

\* a drop has just changed the status of the first of two records that
\* differ in their id
C18_Witness ==
    /\ lastEvent.type = "drop"
    /\ broadcasts = 1
    /\ Len(heap[ProjectsRef]) = 2
    /\ objs[heap[ProjectsRef][1]].id # objs[heap[ProjectsRef][2]].id
    /\ objs[heap[ProjectsRef][1]].status = Finished
    /\ objs[heap[ProjectsRef][2]].status = Active

\* C19: while a gesture is in progress at most one column carries the
\* 'droppable' marker
C19_HoveringExclusive ==
    drag.active => Cardinality({c \in ColumnTypes : droppable[c]}) <= 1

\* C20: drag-start, drag-end, drag-over and drag-leave change neither the
\* store nor what the columns show and broadcast nothing, and a drop whose
\* payload is not of the plain-text kind calls moveProject with an id of no
\* record, which changes nothing and broadcasts nothing
C20_OnlyDropChangesStore ==
    [][/\ lastEvent'.type \in {"dragstart", "dragend", "dragover", "dragleave",
                               "foreigndrag", "foreignend"} => StoreUntouched
       /\ (lastEvent'.type = "drop" /\ ~PlainText(drag)) =>
             /\ objs' = objs /\ heap' = heap /\ listeners' = listeners
             /\ assignedProjects' = assignedProjects
             /\ broadcasts' = 0 /\ calls' = <<>>]_vars

\* a file has just been dropped on the finished column while the store holds
\* an active record, and nothing was broadcast
C20_Witness ==
    /\ lastEvent = Event("drop", "finished", 0)
    /\ drag.types = <<"Files">>
    /\ Len(heap[ProjectsRef]) > 0
    /\ objs[heap[ProjectsRef][1]].status = Active
    /\ moveCalls = <<[projectId |-> "", newStatus |-> Finished]>>
    /\ broadcasts = 0

\* a listener of this type is registered
Registered(type) == \E k \in 1..Len(listeners) : listeners[k].type = type

\* the listeners invoked so far in the broadcast are the first ones of the
\* registry, in registration order
InvokedInOrder(cs, n) ==
    /\ Len(cs) = n
    /\ \A i \in 1..n : cs[i].listener = i

\* C21: a broadcast iterates the live registry, so a listener registered
\* while it runs is invoked within it, after all earlier listeners, and a
\* broadcast never returns once a listener that registers a new listener on
\* every invocation is registered
C21_ReentrantRegistration ==
    [][/\ loop' # NoLoop => InvokedInOrder(calls', loop'.next - 1)
       /\ (loop # NoLoop /\ loop' = NoLoop) => InvokedInOrder(calls', Len(listeners'))
       /\ (loop # NoLoop /\ \E type \in RegistrarTypes : Registered(type))
             => loop' # NoLoop]_vars

\* C21 as amended: a broadcast iterates the live registry, so a listener
\* registered while it runs is invoked within it, after all earlier
\* listeners; a broadcast returns only when every listener of the registry,
\* those registered meanwhile included, has been invoked, and it never
\* returns once a listener that registers itself on every invocation is
\* registered: the loop always has such a listener still to invoke
C21_LiveRegistryIteration ==
    [][/\ loop' # NoLoop => InvokedInOrder(calls', loop'.next - 1)
       /\ (loop # NoLoop /\ loop' = NoLoop) => InvokedInOrder(calls', Len(listeners'))
       /\ (loop # NoLoop /\ Registered("selfRegistrar"))
             => /\ loop' # NoLoop
                /\ \E k \in loop'.next..Len(listeners') :
                      listeners'[k].type = "selfRegistrar"]_vars

\* a listener that registers itself has been invoked twice in one broadcast,
\* the second time as the listener its first invocation registered, and the
\* listener its second invocation registered is still to be invoked
C21_Witness ==
    /\ loop = [next |-> 3, start |-> 1]
    /\ Len(listeners) = 3
    /\ \A k \in 1..3 : listeners[k] = RegistrarFn("selfRegistrar")
    /\ InvokedInOrder(calls, 2)
====
